---- MODULE Spec2Model ----
(***************************************************************************)
(* WhisperServerManager (src/src/helpers/whisperServer.js): the supervisor *)
(* of the local whisper-server child process.                              *)
(*                                                                         *)
(* The manager runs on one JavaScript event loop.  A step of the model is  *)
(* either one task of the loop (a call of start/stop/transcribe by the     *)
(* host, a timer, an I/O callback, the child's close event) run up to its  *)
(* next await, or one microtask (the continuation of an await whose        *)
(* promise is settled).  Microtasks run first in first out and before any  *)
(* further task: microQ is that queue.                                     *)
(***************************************************************************)
EXTENDS Integers, Sequences, FiniteSets, TLC

\* ---------------------------------------------------------------- bounds

\* Calls of start/stop/transcribe the host issues in one run.
MaxCalls == 3
\* Child processes spawned in one run.
MaxChildren == 3
\* Readiness polls that fit into STARTUP_TIMEOUT_MS.
MaxPolls == 2
\* Calls the host issues in a run checked for termination.
MaxLiveCalls == 2
\* Ports at the start and at the end of the range whose every assignment of
\* taken and free is tried; the ports between them are all taken or all free.
LowWidth == 5
HighWidth == 2

\* ------------------------------------------------------------- constants

PORT_RANGE_START == 8178
PORT_RANGE_END == 8199

Null == "null"
NoPath == <<>>
NoProc == 0
NoCall == 0

Calls == 1..MaxCalls
Children == 1..MaxChildren
Ports == PORT_RANGE_START..PORT_RANGE_END

ModelPaths == {"ggml-base.bin", "ggml-small.bin"}

\* ----------------------------------------------------------- environment

\* The host the manager runs on: platform, the server binaries installed
\* (directory, name), the transcoder found or not, the model files on disk,
\* the ports of the range taken by other programs.
Envs ==
  { [platform |-> "linux", files |-> {<<"res", "cpu">>, <<"res", "cuda">>},
     ffmpeg |-> <<"bin", "ffmpeg">>, models |-> {"ggml-base.bin"}, occupied |-> {},
     nvidiaSmi |-> TRUE],
    [platform |-> "win32", files |-> {<<"dev", "cpu">>},
     ffmpeg |-> NoPath, models |-> ModelPaths, occupied |-> {PORT_RANGE_START},
     nvidiaSmi |-> FALSE],
    [platform |-> "darwin", files |-> {<<"res", "legacy">>},
     ffmpeg |-> <<"bin", "ffmpeg">>, models |-> {"ggml-base.bin"}, occupied |-> {},
     nvidiaSmi |-> FALSE],
    [platform |-> "linux", files |-> {},
     ffmpeg |-> NoPath, models |-> {"ggml-base.bin"}, occupied |-> {},
     nvidiaSmi |-> TRUE],
    [platform |-> "linux", files |-> {<<"res", "generic">>},
     ffmpeg |-> <<"bin", "ffmpeg">>, models |-> ModelPaths, occupied |-> Ports,
     nvidiaSmi |-> FALSE] }

\* Audio payloads: byte sequences.
RIFF == <<82, 73, 70, 70>>
WAVE == <<87, 65, 86, 69>>
WavHeader == RIFF \o <<36, 0, 0, 0>> \o WAVE
WebmHeader == <<26, 69, 223, 163, 1, 0, 0, 0, 0, 0, 0, 31>>
AviHeader == RIFF \o <<36, 0, 0, 0>> \o <<65, 86, 73, 32>>
BasicPayloads == {WavHeader, WebmHeader}

\* Payloads around the signature: the header cut short at every length, with
\* each signature byte changed, followed by data, and other containers.
SignatureBytes == {1, 2, 3, 4, 9, 10, 11, 12}
AudioPayloads ==
  {SubSeq(WavHeader, 1, n) : n \in 0..12}
    \cup {[WavHeader EXCEPT ![i] = 0] : i \in SignatureBytes}
    \cup {WavHeader \o <<1, 0, 1, 0>>, WebmHeader, AviHeader, WebmHeader \o WavHeader}

VARIABLES
  process,               \* this.process: the child owned, or NoProc
  port,                  \* this.port
  ready,                 \* this.ready
  modelPath,             \* this.modelPath
  startupPromise,        \* this.startupPromise: the call whose _doStart it is
  healthCheckInterval,   \* this.healthCheckInterval: the timer is set
  cachedServerBinaryPath,
  cachedCudaBinaryPath,
  cachedFFmpegPath,
  _cudaAvailable,        \* this._cudaAvailable: what checkCudaAvailable found
  canConvert,            \* this.canConvert
  usingCuda,             \* this.usingCuda
  env,                   \* the host; only the ports taken by others change
  children,              \* the child processes spawned so far
  calls,                 \* the host's calls and where each stands
  microQ,                \* the microtask queue: calls with a continuation to run
  monProbes,             \* the monitoring probes in flight, by the child probed
  lastProbe              \* history: how the last probe of the owned child ended

instVars == <<process, port, ready, modelPath, startupPromise, healthCheckInterval,
              canConvert, usingCuda>>
cacheVars == <<cachedServerBinaryPath, cachedCudaBinaryPath, cachedFFmpegPath,
               _cudaAvailable>>
vars == <<process, port, ready, modelPath, startupPromise, healthCheckInterval,
          cachedServerBinaryPath, cachedCudaBinaryPath, cachedFFmpegPath,
          _cudaAvailable, canConvert, usingCuda, env, children, calls, microQ, monProbes, lastProbe>>

\* ------------------------------------------------------------- records

NoChild == [st |-> "none", port |-> 0, bin |-> NoPath, killed |-> FALSE,
            signal |-> "none", by |-> NoCall, useCuda |-> FALSE]

NoCallRec == [kind |-> "none", pc |-> "idle", modelPath |-> Null, useCuda |-> FALSE,
              audio |-> <<>>, target |-> NoProc, follows |-> NoCall, pollCount |-> 0,
              probePort |-> 0, bin |-> NoPath, result |-> Null, part |-> Null,
              sent |-> 0, obs |-> Null, inflight |-> {}, events |-> <<>>, detail |-> <<>>]

\* A call that has returned to the host: nothing of it is kept.
DoneRec == [NoCallRec EXCEPT !.kind = "done", !.pc = "done"]

Min(S) == CHOOSE x \in S : \A y \in S : x <= y

RECURSIVE Ascending(_)
Ascending(S) == IF S = {} THEN <<>> ELSE <<Min(S)>> \o Ascending(S \ {Min(S)})

Alive(k) == children[k].st = "alive"
AliveChildren == {k \in Children : Alive(k)}
Spawned == {k \in Children : children[k].st # "none"}

\* Calls of start that have not returned to their caller yet.
StartsInFlight == {c \in Calls : calls[c].kind = "start" /\ calls[c].pc # "returned"}
Stopping == \E c \in Calls : calls[c].pc \in {"stopWait", "stopHung", "stopResolved"}
Starting == \E c \in Calls : calls[c].pc \in {"startCont", "portScan", "probe", "probeOk", "sleep"}

\* The state of the supervisor in the terms of the state machine
\* Stopped -> Starting -> Ready <-> Degraded -> Stopping -> Stopped.
State ==
  IF Stopping THEN "Stopping"
  ELSE IF Starting THEN "Starting"
  ELSE IF process = NoProc THEN "Stopped"
  ELSE IF ready THEN "Ready"
  ELSE IF healthCheckInterval THEN "Degraded"
  ELSE "Stopped"

\* The call issued next: calls are numbered in the order they are issued.
NextCall(t) == /\ calls[t].kind = "none"
               /\ \A s \in Calls : s < t => calls[s].kind # "none"

\* The supervisor is Ready, running model m for a request of preference useCuda.
ReadyWith(m, useCuda) ==
  /\ State = "Ready"
  /\ modelPath = m
  /\ children[process].useCuda = useCuda

\* What a call finds when it is issued (kept in obs for the statements about
\* the call, never read by the manager): a transcribe the state and canConvert,
\* a start whether it repeats the request the supervisor is Ready with; a
\* stop gets the signal whose sending raised an error, if one did.
NewCall(kind) ==
  [NoCallRec EXCEPT !.kind = kind,
                    !.obs = IF kind = "transcribe" THEN <<State, canConvert>> ELSE Null,
                    !.inflight = IF kind = "start" THEN StartsInFlight ELSE {}]

Init ==
  /\ process = NoProc
  /\ port = 0
  /\ ready = FALSE
  /\ modelPath = Null
  /\ startupPromise = NoCall
  /\ healthCheckInterval = FALSE
  /\ cachedServerBinaryPath = NoPath
  /\ cachedCudaBinaryPath = NoPath
  /\ cachedFFmpegPath = NoPath
  /\ _cudaAvailable = Null
  /\ canConvert = FALSE
  /\ usingCuda = FALSE
  /\ env \in Envs
  /\ children = [k \in Children |-> NoChild]
  /\ calls = [c \in Calls |-> NoCallRec]
  /\ microQ = <<>>
  /\ monProbes = [k \in Children |-> "none"]
  /\ lastProbe = "none"

\* ------------------------------------------------------- binary locator

\* getServerBinaryPath's candidate list, in the order it is searched.
Candidates(useCuda) ==
  LET variant == IF env.platform # "darwin" /\ useCuda THEN "cuda" ELSE "cpu"
      isRequestingCuda == useCuda /\ env.platform # "darwin"
      names == IF isRequestingCuda THEN <<variant>> ELSE <<variant, "legacy", "generic">>
  IN  [i \in 1..Len(names) |-> <<"res", names[i]>>] \o
      [i \in 1..Len(names) |-> <<"dev", names[i]>>]

FirstExisting(cands) ==
  LET found == {i \in 1..Len(cands) : cands[i] \in env.files}
  IN  IF found = {} THEN NoPath ELSE cands[Min(found)]

\* getServerBinaryPath(useCuda): the cached path of the variant, or the
\* first candidate that exists.
getServerBinaryPath(useCuda) ==
  LET cached == IF useCuda THEN cachedCudaBinaryPath ELSE cachedServerBinaryPath
  IN  IF cached # NoPath THEN cached ELSE FirstExisting(Candidates(useCuda))

\* getFFmpegPath(): the cached path, or the transcoder of the host.
getFFmpegPath == IF cachedFFmpegPath # NoPath THEN cachedFFmpegPath ELSE env.ffmpeg

\* checkCudaAvailable(): the cached answer, or false on darwin, or whether
\* nvidia-smi runs.
checkCudaAvailable ==
  IF _cudaAvailable # Null THEN _cudaAvailable
  ELSE IF env.platform = "darwin" THEN "false"
  ELSE IF env.nvidiaSmi THEN "true" ELSE "false"

\* The binary at this path is the accelerated build.
IsCudaBinary(path) == path # NoPath /\ path[2] = "cuda"

\* -------------------------------------------------------- port allocator

OccupiedPorts == env.occupied \cup {children[k].port : k \in AliveChildren}

\* isPortAvailable(port) (lines 242-252): a listener can be bound to the port
\* on 127.0.0.1.
isPortAvailable(p) == p \notin OccupiedPorts

\* The loop of findAvailablePort (lines 236-239) from port p on: the first
\* port that can be bound, 0 when the range is exhausted (the Error thrown).
RECURSIVE scanFrom(_)
scanFrom(p) ==
  IF p > PORT_RANGE_END THEN 0
  ELSE IF isPortAvailable(p) THEN p
  ELSE scanFrom(p + 1)

\* The scan run downwards from the end of the range.
RECURSIVE scanDownFrom(_)
scanDownFrom(p) ==
  IF p < PORT_RANGE_START THEN 0
  ELSE IF isPortAvailable(p) THEN p
  ELSE scanDownFrom(p - 1)

findHighestPort == scanDownFrom(PORT_RANGE_END)

\* findAvailablePort() (lines 235-240).
findAvailablePort == scanFrom(PORT_RANGE_START)

\* Other programs bind every port of the range once the servers spawned so
\* far have exited (isPortAvailable's bind then fails for each port; the host
\* whose range is exhausted from the beginning is one of Envs).
PortsTaken ==
  /\ microQ = <<>>
  /\ env.occupied = {}
  /\ Spawned # {}
  /\ AliveChildren = {}
  /\ env' = [env EXCEPT !.occupied = Ports]
  /\ UNCHANGED <<instVars, cacheVars, children, calls, microQ, monProbes, lastProbe>>

\* ------------------------------------------------------------- getStatus

getStatus ==
  [available |-> getServerBinaryPath(FALSE) # NoPath,
   running |-> ready /\ process # NoProc,
   port |-> port,
   modelPath |-> modelPath,
   usingCuda |-> usingCuda,
   cudaAvailable |-> checkCudaAvailable,
   cudaBinaryAvailable |-> getServerBinaryPath(TRUE) # NoPath]

\* ------------------------------------------------------------ primitives

\* killProcess(proc, signal) of ../utils/process: the signal is sent to the
\* child; off Windows through proc.kill(), which sets proc.killed.
killProcess(k, signal) ==
  [children EXCEPT ![k].killed = @ \/ env.platform # "win32",
                   ![k].signal = IF @ = "SIGKILL" THEN @ ELSE signal]

\* this.process = null: the manager drops its handle of the child it owned.
\* Nothing reads the handle's fields afterwards; the child itself lives on
\* until it exits.
Disowned(ch) ==
  IF process = NoProc \/ ch[process].st # "alive" THEN ch
  ELSE [ch EXCEPT ![process] = [NoChild EXCEPT !.st = "alive", !.port = ch[process].port,
                                               !.by = ch[process].by]]

\* stopHealthCheck() leaving the interval timer set.
keepHealthCheck == healthCheckInterval' = healthCheckInterval

\* stopHealthCheck() (lines 448-453): clearInterval.
stopHealthCheck == healthCheckInterval' = FALSE

\* startHealthCheck() (lines 434-446): a fresh interval timer.
startHealthCheck == healthCheckInterval' = TRUE

\* The promise call c awaits is settled with result; c's continuation is a
\* microtask.
Settled(rec, result) == [rec EXCEPT !.pc = "settled", !.result = result]

\* The promise of call c settles for the host with result.
Returned(rec, result) ==
  [rec EXCEPT !.pc = "returned", !.result = result, !.target = NoProc, !.pollCount = 0,
              !.probePort = 0, !.bin = NoPath]

\* fs.existsSync(modelPath) always true: the model check switched off.
modelExistsAlways(m) == TRUE

\* fs.existsSync(modelPath) (line 296).
modelExists(m) == m \in env.models

\* _doStart up to its first await (lines 274-298), for call c with record rec:
\* resolve the binary, check the model, begin the port scan.  start() stores
\* the promise it returns in startupPromise (line 266).  q is the microtask
\* queue it runs with.
doStartSync(c, rec, q) ==
  LET useCuda == rec.useCuda
      cudaTry == IF useCuda THEN getServerBinaryPath(TRUE) ELSE NoPath
      actuallyUsingCuda == useCuda /\ cudaTry # NoPath
      serverBinary == IF actuallyUsingCuda THEN cudaTry ELSE getServerBinaryPath(FALSE)
  IN  /\ cachedCudaBinaryPath' = IF useCuda THEN cudaTry ELSE cachedCudaBinaryPath
      /\ cachedServerBinaryPath' =
           IF actuallyUsingCuda THEN cachedServerBinaryPath ELSE serverBinary
      /\ startupPromise' = c
      /\ IF serverBinary = NoPath
           THEN /\ calls' = [calls EXCEPT ![c] = Settled(rec, "BinaryNotFound")]
                /\ microQ' = Append(q, c)
                /\ UNCHANGED usingCuda
         ELSE IF ~modelExists(rec.modelPath)
           THEN /\ calls' = [calls EXCEPT ![c] = Settled(rec, "ModelNotFound")]
                /\ microQ' = Append(q, c)
                /\ usingCuda' = actuallyUsingCuda
         ELSE /\ calls' = [calls EXCEPT ![c] = [rec EXCEPT !.pc = "portScan",
                                                          !.bin = serverBinary]]
              /\ microQ' = q
              /\ usingCuda' = actuallyUsingCuda

\* stop() up to its await (lines 584-614) with a process owned: cancel the
\* monitoring, send SIGTERM, arm the grace timer and listen for close.  When
\* killProcess raises, the catch of line 615 logs it and stop() goes on to
\* reset the fields (lines 619-622) and returns without waiting.
stopSync(c, rec, raised) ==
  /\ stopHealthCheck
  /\ IF raised
       THEN /\ process' = NoProc
            /\ ready' = FALSE
            /\ port' = 0
            /\ modelPath' = Null
            /\ children' = Disowned(children)
            /\ calls' = [calls EXCEPT ![c] =
                 IF rec.kind = "stop" THEN Returned([rec EXCEPT !.obs = "SIGTERM"], "ok")
                 ELSE [rec EXCEPT !.pc = "startCont"]]
            /\ microQ' = <<c>>
       ELSE /\ children' = killProcess(process, "SIGTERM")
            /\ calls' = [calls EXCEPT ![c] = [rec EXCEPT !.pc = "stopWait", !.target = process]]
            /\ UNCHANGED <<process, ready, port, modelPath, microQ>>

\* ------------------------------------------------------------------ start

\* start() returns early as a no-op (line 260).
alreadyRunning(m, useCuda) == ready /\ modelPath = m /\ usingCuda = useCuda

\* start(modelPath, {useCuda}) called by the host (lines 254-266).
StartCall(c, m, useCuda) ==
  /\ NextCall(c)
  /\ microQ = <<>>
  /\ LET rec == [NewCall("start") EXCEPT !.modelPath = m, !.useCuda = useCuda,
                                         !.obs = ReadyWith(m, useCuda)]
     IN  IF startupPromise # NoCall
           THEN /\ calls' = [calls EXCEPT ![c] = [rec EXCEPT !.pc = "coalesced",
                                                            !.follows = startupPromise]]
                /\ UNCHANGED <<instVars, cacheVars, env, children, microQ, monProbes, lastProbe>>
         ELSE IF alreadyRunning(m, useCuda)
           THEN /\ calls' = [calls EXCEPT ![c] = Returned(rec, "ok")]
                /\ microQ' = <<c>>
                /\ UNCHANGED <<instVars, cacheVars, env, children, monProbes, lastProbe>>
         ELSE IF process # NoProc
           THEN /\ \E raised \in BOOLEAN : stopSync(c, rec, raised)
                /\ UNCHANGED <<startupPromise, canConvert, usingCuda, cacheVars, env,
                               monProbes, lastProbe>>
         ELSE /\ doStartSync(c, rec, <<>>)
              /\ UNCHANGED <<process, port, ready, modelPath, healthCheckInterval, canConvert,
                             cachedFFmpegPath, _cudaAvailable, env, children, monProbes, lastProbe>>

\* The continuation of stop()'s await resetting port and modelPath but
\* keeping the handle of the process.
StopContKeepsProcess ==
  /\ microQ # <<>>
  /\ LET c == Head(microQ)
     IN  /\ calls[c].pc = "stopResolved"
         /\ ready' = FALSE
         /\ port' = 0
         /\ modelPath' = Null
         /\ calls' = [calls EXCEPT ![c] =
              IF calls[c].kind = "stop" THEN Returned(calls[c], "ok")
              ELSE [calls[c] EXCEPT !.pc = "startCont", !.target = NoProc]]
         /\ microQ' = Append(Tail(microQ), c)
  /\ UNCHANGED <<process, children, startupPromise, healthCheckInterval, canConvert,
                 usingCuda, cacheVars, env, monProbes, lastProbe>>

\* The continuation of stop()'s await (lines 619-622): reset the fields.  A
\* stop() called by start() returns to start()'s await (line 263).
StopCont ==
  /\ microQ # <<>>
  /\ LET c == Head(microQ)
     IN  /\ calls[c].pc = "stopResolved"
         /\ process' = NoProc
         /\ ready' = FALSE
         /\ port' = 0
         /\ modelPath' = Null
         /\ children' = Disowned(children)
         /\ calls' = [calls EXCEPT ![c] =
              IF calls[c].kind = "stop" THEN Returned(calls[c], "ok")
              ELSE [calls[c] EXCEPT !.pc = "startCont", !.target = NoProc]]
         /\ microQ' = Append(Tail(microQ), c)
  /\ lastProbe' = "none"
  /\ UNCHANGED <<startupPromise, healthCheckInterval, canConvert, usingCuda, cacheVars,
                 env, monProbes>>

\* The continuation of start()'s await of stop() (line 266).
StartCont ==
  /\ microQ # <<>>
  /\ LET c == Head(microQ)
     IN  /\ calls[c].pc = "startCont"
         /\ doStartSync(c, calls[c], Tail(microQ))
  /\ UNCHANGED <<process, port, ready, modelPath, healthCheckInterval, canConvert,
                 cachedFFmpegPath, _cudaAvailable, env, children, monProbes, lastProbe>>

\* The outcome a coalesced caller sees: that of the promise start() returned
\* to it (line 255).
coalescedResult(result) == result

\* The calls that returned the promise of call c.
Followers(c) == {d \in Calls : calls[d].pc = "coalesced" /\ calls[d].follows = c}

\* The continuation of start()'s await of startupPromise (lines 267-271): the
\* finally clause clears the marker; start() and every call that returned the
\* same promise settle with its outcome.
Finally ==
  /\ microQ # <<>>
  /\ LET c == Head(microQ)
     IN  /\ calls[c].pc = "settled"
         /\ startupPromise' = NoCall
         /\ calls' = [d \in Calls |->
              IF d = c THEN Returned(calls[c], calls[c].result)
              ELSE IF d \in Followers(c)
                THEN Returned(calls[d], coalescedResult(calls[c].result))
              ELSE calls[d]]
         /\ microQ' = Tail(microQ) \o <<c>> \o Ascending(Followers(c))
  /\ UNCHANGED <<process, port, ready, modelPath, healthCheckInterval, canConvert,
                 usingCuda, cacheVars, env, children, monProbes, lastProbe>>

\* The host's continuation of a call that has settled.
Return ==
  /\ microQ # <<>>
  /\ LET c == Head(microQ)
     IN  /\ calls[c].pc = "returned"
         /\ calls' = [calls EXCEPT ![c] = DoneRec]
         /\ microQ' = Tail(microQ)
  /\ UNCHANGED <<instVars, cacheVars, env, children, monProbes, lastProbe>>

\* _doStart after the port scan (lines 298-366) and waitForReady up to its
\* first probe (lines 375-394): record port and model, spawn the child, attach
\* the handlers, send the first readiness probe.
PortScanDone(c) ==
  /\ microQ = <<>>
  /\ calls[c].pc = "portScan"
  /\ LET p == findAvailablePort
         ffmpegPath == getFFmpegPath
     IN  IF p = 0
           THEN /\ calls' = [calls EXCEPT ![c] = Settled(calls[c], "NoPortAvailable")]
                /\ microQ' = <<c>>
                /\ UNCHANGED <<instVars, cacheVars, env, children, monProbes, lastProbe>>
           ELSE /\ Spawned # Children
                /\ LET k == Min(Children \ Spawned)
                   IN  /\ port' = p
                       /\ modelPath' = calls[c].modelPath
                       /\ cachedFFmpegPath' = ffmpegPath
                       /\ canConvert' = (ffmpegPath # NoPath)
                       /\ children' = [children EXCEPT ![k] =
                            [st |-> "alive", port |-> p, bin |-> calls[c].bin,
                             killed |-> FALSE, signal |-> "none", by |-> c,
                             useCuda |-> calls[c].useCuda]]
                       /\ process' = k
                       /\ lastProbe' = "none"
                       /\ calls' = [calls EXCEPT ![c].pc = "probe", ![c].pollCount = 1,
                                                 ![c].probePort = p]
                /\ UNCHANGED <<ready, startupPromise, healthCheckInterval, usingCuda,
                               cachedServerBinaryPath, cachedCudaBinaryPath, _cudaAvailable, env,
                               microQ, monProbes>>

\* The server answers the readiness probe of call c: a child is alive on the
\* port the probe went to.
ProbeAnswered(c) ==
  /\ microQ = <<>>
  /\ calls[c].pc = "probe"
  /\ \E k \in AliveChildren : children[k].port = calls[c].probePort
  /\ calls' = [calls EXCEPT ![c].pc = "probeOk"]
  /\ UNCHANGED <<instVars, cacheVars, env, children, microQ, monProbes, lastProbe>>

\* checkHealth() of waitForReady settles (lines 394-403).  True: ready is set,
\* waitForReady returns, _doStart starts the monitoring and resolves (lines
\* 366-373).  False: sleep STARTUP_POLL_INTERVAL_MS.
ProbeResult(c) ==
  /\ microQ = <<>>
  /\ lastProbe' = IF process # NoProc /\ children[process].port = calls[c].probePort
                    THEN (IF calls[c].pc = "probeOk" THEN "ok" ELSE "failed")
                    ELSE lastProbe
  /\ \/ /\ calls[c].pc = "probeOk"
        /\ ready' = TRUE
        /\ startHealthCheck
        /\ calls' = [calls EXCEPT ![c] = Settled(calls[c], "ok")]
        /\ microQ' = <<c>>
        /\ UNCHANGED <<process, port, modelPath, startupPromise, canConvert, usingCuda>>
     \/ /\ calls[c].pc = "probe"
        /\ calls' = [calls EXCEPT ![c].pc = "sleep"]
        /\ UNCHANGED <<instVars, microQ>>
  /\ UNCHANGED <<cacheVars, env, children, monProbes>>

\* The child waitForReady looks at is gone (line 384).
processDied == process = NoProc \/ children[process].killed

\* waitForReady's sleep is over (lines 383-394): the deadline, then the child,
\* then the next probe.
SleepDone(c) ==
  /\ microQ = <<>>
  /\ calls[c].pc = "sleep"
  /\ IF calls[c].pollCount >= MaxPolls
       THEN /\ calls' = [calls EXCEPT ![c] = Settled(calls[c], "StartupTimeout")]
            /\ microQ' = <<c>>
     ELSE IF processDied
       THEN /\ calls' = [calls EXCEPT ![c] = Settled(calls[c], "ProcessDied")]
            /\ microQ' = <<c>>
     ELSE /\ calls' = [calls EXCEPT ![c].pc = "probe", ![c].pollCount = @ + 1,
                                    ![c].probePort = port]
          /\ UNCHANGED microQ
  /\ UNCHANGED <<instVars, cacheVars, env, children, monProbes, lastProbe>>


\* ------------------------------------------------------------------- stop

\* stop() called by the host (lines 584-614).
StopCall(c) ==
  /\ NextCall(c)
  /\ microQ = <<>>
  /\ IF process = NoProc
       THEN /\ stopHealthCheck
            /\ ready' = FALSE
            /\ calls' = [calls EXCEPT ![c] = Returned(NewCall("stop"), "ok")]
            /\ microQ' = <<c>>
            /\ UNCHANGED <<process, port, modelPath, children>>
       ELSE \E raised \in BOOLEAN : stopSync(c, NewCall("stop"), raised)
  /\ UNCHANGED <<startupPromise, canConvert, usingCuda, cacheVars, env, monProbes, lastProbe>>

\* stop()'s grace timer fires (lines 598-603): SIGKILL to whatever process is
\* owned now, and the wait is over.  The callback runs outside the try of
\* stop(): when killProcess raises in it, resolve() is not reached, the error
\* is an uncaught exception of the event loop and stop() goes on waiting for
\* the close event alone.  Timers of one delay fire in the order they were
\* armed: the calls are numbered in the order they were issued.
StopTimeout(c) ==
  /\ microQ = <<>>
  /\ calls[c].pc = "stopWait"
  /\ \A d \in Calls : d < c => calls[d].pc # "stopWait"
  /\ \/ /\ children' = IF process # NoProc THEN killProcess(process, "SIGKILL") ELSE children
        /\ calls' = [calls EXCEPT ![c].pc = "stopResolved"]
        /\ microQ' = <<c>>
     \/ /\ process # NoProc
        /\ calls' = [calls EXCEPT ![c].pc = "stopHung",
                                  ![c].obs = IF calls[c].kind = "stop" THEN "SIGKILL" ELSE @]
        /\ UNCHANGED <<children, microQ>>
  /\ UNCHANGED <<instVars, cacheVars, env, monProbes, lastProbe>>

\* ------------------------------------------------------------- the child

\* The calls of stop() listening for the close of child k (line 606).
CloseListeners(k) ==
  {c \in Calls : calls[c].pc \in {"stopWait", "stopHung"} /\ calls[c].target = k}

\* Child k exits and its close event is delivered: the handler of _doStart
\* (lines 358-364), then the listeners of stop() in the order they were added.
ChildExit(k) ==
  /\ microQ = <<>>
  /\ Alive(k)
  /\ children' = [Disowned(children) EXCEPT ![k] = [NoChild EXCEPT !.st = "closed"]]
  /\ ready' = FALSE
  /\ process' = NoProc
  /\ stopHealthCheck
  /\ calls' = [c \in Calls |-> IF c \in CloseListeners(k)
                                 THEN [calls[c] EXCEPT !.pc = "stopResolved"]
                                 ELSE calls[c]]
  /\ microQ' = Ascending(CloseListeners(k))
  /\ lastProbe' = "none"
  /\ UNCHANGED <<port, modelPath, startupPromise, canConvert, usingCuda, cacheVars, env,
                 monProbes>>

\* The child's error event (lines 353-356).
ProcessError(k) ==
  /\ microQ = <<>>
  /\ Alive(k)
  /\ ready
  /\ ready' = FALSE
  /\ UNCHANGED <<process, port, modelPath, startupPromise, healthCheckInterval, canConvert,
                 usingCuda, cacheVars, env, children, calls, microQ, monProbes, lastProbe>>

\* ------------------------------------------------------ health monitoring

\* The interval timer fires (lines 436-441): without a process the timer is
\* cleared, else a probe is sent.
HealthTick ==
  /\ microQ = <<>>
  /\ healthCheckInterval
  /\ IF process = NoProc
       THEN /\ stopHealthCheck
            /\ UNCHANGED monProbes
       ELSE /\ monProbes[process] = "none"
            /\ monProbes' = [monProbes EXCEPT ![process] = "sent"]
            /\ UNCHANGED healthCheckInterval
  /\ UNCHANGED <<process, port, ready, modelPath, startupPromise, canConvert, usingCuda,
                 cacheVars, env, children, calls, microQ, lastProbe>>

\* checkHealth() of the monitoring probe sent while child k was owned settles
\* (lines 441-444).  It resolves true only on a response: the child is alive.
MonProbeResult(k, ok) ==
  /\ microQ = <<>>
  /\ monProbes[k] = "sent"
  /\ ok => Alive(k)
  /\ ready' = IF ok THEN ready ELSE FALSE
  /\ monProbes' = [monProbes EXCEPT ![k] = "none"]
  /\ lastProbe' = IF k = process THEN (IF ok THEN "ok" ELSE "failed") ELSE lastProbe
  /\ UNCHANGED <<process, port, modelPath, startupPromise, healthCheckInterval, canConvert,
                 usingCuda, cacheVars, env, children, calls, microQ>>

\* ------------------------------------------------------------- transcribe

\* notRunning without the test of ready.
notRunningNoReady == process = NoProc

\* The precondition of transcribe (line 456).
notRunning == ~ready \/ process = NoProc

\* isWav looking at the RIFF tag alone.
isWavRiffOnly(audio) ==
  /\ Len(audio) >= 12
  /\ audio[1] = 82 /\ audio[2] = 73 /\ audio[3] = 70 /\ audio[4] = 70

\* The sniff of the container signature (lines 476-486); audio[i + 1] is
\* audioBuffer[i].
isWav(audio) ==
  /\ Len(audio) >= 12
  /\ audio[1] = 82 /\ audio[2] = 73 /\ audio[3] = 70 /\ audio[4] = 70
  /\ audio[9] = 87 /\ audio[10] = 65 /\ audio[11] = 86 /\ audio[12] = 69

\* The file part of the multipart body (lines 490-491).
fileName(audio) == IF isWav(audio) THEN "audio.wav" ELSE "audio.webm"
contentType(audio) == IF isWav(audio) THEN "audio/wav" ELSE "audio/webm"

\* transcribe(audioBuffer) called by the host (lines 455-581): the checks, then
\* the request is written.
TranscribeCall(c, audio) ==
  /\ NextCall(c)
  /\ microQ = <<>>
  /\ LET rec == [NewCall("transcribe") EXCEPT !.audio = audio]
     IN  IF notRunning
           THEN /\ calls' = [calls EXCEPT ![c] = Returned(rec, "ServerNotRunning")]
                /\ microQ' = <<c>>
         ELSE IF ~isWav(audio) /\ ~canConvert
           THEN /\ calls' = [calls EXCEPT ![c] = Returned(rec, "UnsupportedFormat")]
                /\ microQ' = <<c>>
         ELSE /\ calls' = [calls EXCEPT ![c] =
                   [rec EXCEPT !.pc = "request",
                               !.part = <<fileName(audio), contentType(audio)>>,
                               !.probePort = port, !.sent = 1]]
              /\ UNCHANGED microQ
  /\ UNCHANGED <<instVars, cacheVars, env, children, monProbes, lastProbe>>

\* Response bodies: one that JSON.parse accepts, one it does not, the empty one.
GoodBody == "{\"text\": \"hi\"}"
Bodies == {GoodBody, "Internal Server Error", ""}

\* JSON.parse(data) (line 562): whether it returns, and the text it yields.
JSONparse(data) == IF data = GoodBody THEN <<TRUE, "hi">> ELSE <<FALSE, "">>

\* What the HTTP round trip of a request delivers to its handlers, in order
\* (lines 544-577): a complete response, a transport error, or the timeout,
\* after which req.destroy() makes the request emit an error as well.
HttpResponses == [type : {"response"}, status : {200, 500}, body : Bodies]
RoundTrips ==
  {<<r>> : r \in HttpResponses}
    \cup {<<[type |-> "error"]>>, <<[type |-> "timeout"], [type |-> "error"]>>}

\* The settlement one event asks for: the outcome and what it carries.
handle(e) ==
  IF e.type = "response"
    THEN IF e.status # 200 THEN <<"InferenceError", <<e.status, e.body>>>>
         ELSE IF JSONparse(e.body)[1] THEN <<"ok", <<JSONparse(e.body)[2]>>>>
         ELSE <<"MalformedResponse", <<>>>>
  ELSE IF e.type = "error" THEN <<"RequestFailed", <<>>>>
  ELSE <<"RequestTimedOut", <<>>>>

\* A promise settled by the last event delivered instead of the first.
settleLast(events) == handle(events[Len(events)])

\* The promise of transcribe keeps the first settlement; later calls of
\* resolve or reject do nothing.
settle(events) == handle(events[1])

\* A failed request is written again instead of being reported.
retryOnFailure(rec, outcome) ==
  IF outcome[1] # "ok" /\ rec.sent < 2
    THEN [rec EXCEPT !.sent = @ + 1]
  ELSE [Returned(rec, outcome[1]) EXCEPT !.detail = outcome[2]]

\* The handlers of the request settle the promise (lines 556-575): nothing
\* is sent again.
onOutcome(rec, outcome) == [Returned(rec, outcome[1]) EXCEPT !.detail = outcome[2]]

\* The round trip of call c's request ends and marks the server not ready.
TranscribeResponseClearsReady(c, events) ==
  /\ microQ = <<>>
  /\ calls[c].pc = "request"
  /\ events[1].type = "response" =>
       \E k \in AliveChildren : children[k].port = calls[c].probePort
  /\ calls' = [calls EXCEPT ![c] = onOutcome([calls[c] EXCEPT !.events = events],
                                             settle(events))]
  /\ microQ' = IF calls'[c].pc = "returned" THEN <<c>> ELSE <<>>
  /\ ready' = FALSE
  /\ UNCHANGED <<process, port, modelPath, startupPromise, healthCheckInterval, canConvert,
                 usingCuda, cacheVars, env, children, monProbes, lastProbe>>

\* The round trip of call c's request ends.  A response needs a server alive
\* on the port.
TranscribeResponse(c, events) ==
  /\ microQ = <<>>
  /\ calls[c].pc = "request"
  /\ events[1].type = "response" =>
       \E k \in AliveChildren : children[k].port = calls[c].probePort
  /\ calls' = [calls EXCEPT ![c] = onOutcome([calls[c] EXCEPT !.events = events],
                                             settle(events))]
  /\ microQ' = IF calls'[c].pc = "returned" THEN <<c>> ELSE <<>>
  /\ UNCHANGED <<instVars, cacheVars, env, children, monProbes, lastProbe>>

\* ---------------------------------------------------------- specification

\* The steps of the manager and of its child, apart from the host's calls.
Internal ==
  \/ StopCont
  \/ StartCont
  \/ Finally
  \/ Return
  \/ HealthTick
  \/ PortsTaken
  \/ \E c \in Calls : PortScanDone(c)
  \/ \E c \in Calls : ProbeAnswered(c)
  \/ \E c \in Calls : ProbeResult(c)
  \/ \E c \in Calls : SleepDone(c)
  \/ \E c \in Calls : StopTimeout(c)
  \/ \E k \in Children : ChildExit(k)
  \/ \E k \in Children : ProcessError(k)
  \/ \E k \in Children, ok \in BOOLEAN : MonProbeResult(k, ok)
  \/ \E c \in Calls, events \in RoundTrips : TranscribeResponse(c, events)

Next ==
  \/ \E c \in Calls, m \in ModelPaths, useCuda \in BOOLEAN : StartCall(c, m, useCuda)
  \/ \E c \in Calls : StopCall(c)
  \/ \E c \in Calls, audio \in BasicPayloads : TranscribeCall(c, audio)
  \/ Internal

Spec == Init /\ [][Next]_vars

\* The same manager with a host that starts one configuration and transcribes
\* every payload of AudioPayloads.
NextAudio ==
  \/ \E c \in Calls : StartCall(c, "ggml-base.bin", FALSE)
  \/ \E c \in Calls : StopCall(c)
  \/ \E c \in Calls, audio \in AudioPayloads : TranscribeCall(c, audio)
  \/ Internal

SpecAudio == Init /\ [][NextAudio]_vars

\* The manager under a host that issues MaxLiveCalls calls, with the scheduling
\* the event loop guarantees: a queued microtask runs, a timer that is set
\* fires, a port scan and an HTTP request settle (each has its own timeout).
\* Nothing makes the child exit.
LiveCalls == 1..MaxLiveCalls

NextLive ==
  \/ \E c \in LiveCalls, m \in ModelPaths, useCuda \in BOOLEAN : StartCall(c, m, useCuda)
  \/ \E c \in LiveCalls : StopCall(c)
  \/ \E c \in LiveCalls, audio \in BasicPayloads : TranscribeCall(c, audio)
  \/ Internal

Fairness ==
  /\ WF_vars(StopCont) /\ WF_vars(StartCont) /\ WF_vars(Finally) /\ WF_vars(Return)
  /\ \A c \in Calls :
       /\ WF_vars(StopTimeout(c))
       /\ WF_vars(PortScanDone(c))
       /\ WF_vars(ProbeResult(c))
       /\ WF_vars(SleepDone(c))
       /\ WF_vars(\E events \in RoundTrips : TranscribeResponse(c, events))

SpecLive == Init /\ [][NextLive]_vars /\ Fairness

\* The port allocator alone: a host with any of the assignments PortEnvs of
\* taken and free ports, and one start that runs up to its port scan.
LowPorts == PORT_RANGE_START..(PORT_RANGE_START + LowWidth - 1)
HighPorts == (PORT_RANGE_END - HighWidth + 1)..PORT_RANGE_END
MidPorts == Ports \ (LowPorts \cup HighPorts)

PortEnvs ==
  {[platform |-> "linux", files |-> {<<"res", "cpu">>}, ffmpeg |-> NoPath,
    models |-> {"ggml-base.bin"}, occupied |-> low \cup mid \cup high,
    nvidiaSmi |-> FALSE] :
     low \in SUBSET LowPorts, mid \in {{}, MidPorts}, high \in SUBSET HighPorts}

InitPorts ==
  /\ process = NoProc
  /\ port = 0
  /\ ready = FALSE
  /\ modelPath = Null
  /\ startupPromise = NoCall
  /\ healthCheckInterval = FALSE
  /\ cachedServerBinaryPath = NoPath
  /\ cachedCudaBinaryPath = NoPath
  /\ cachedFFmpegPath = NoPath
  /\ _cudaAvailable = Null
  /\ canConvert = FALSE
  /\ usingCuda = FALSE
  /\ env \in PortEnvs
  /\ children = [k \in Children |-> NoChild]
  /\ calls = [c \in Calls |-> NoCallRec]
  /\ microQ = <<>>
  /\ monProbes = [k \in Children |-> "none"]
  /\ lastProbe = "none"

NextPorts ==
  \/ StartCall(1, "ggml-base.bin", FALSE)
  \/ PortScanDone(1)
  \/ Finally
  \/ Return

SpecPorts == InitPorts /\ [][NextPorts]_vars

\* ------------------------------------------------------------- the caches

\* The host calls getStatus() (lines 625-636): isAvailable, checkCudaAvailable
\* and isCudaBinaryAvailable fill the caches of what they find.
GetStatusCall ==
  /\ microQ = <<>>
  /\ cachedServerBinaryPath' = getServerBinaryPath(FALSE)
  /\ _cudaAvailable' = checkCudaAvailable
  /\ cachedCudaBinaryPath' = getServerBinaryPath(TRUE)
  /\ UNCHANGED <<instVars, cachedFFmpegPath, env, children, calls, microQ, monProbes, lastProbe>>

clearEveryCache ==
  /\ microQ = <<>>
  /\ cachedCudaBinaryPath' = NoPath
  /\ cachedServerBinaryPath' = NoPath
  /\ cachedFFmpegPath' = NoPath
  /\ _cudaAvailable' = Null
  /\ UNCHANGED <<instVars, env, children, calls, microQ, monProbes, lastProbe>>

\* The host calls clearCudaBinaryCache() (lines 227-229).
clearCudaBinaryCache ==
  /\ microQ = <<>>
  /\ cachedCudaBinaryPath' = NoPath
  /\ UNCHANGED <<instVars, cachedServerBinaryPath, cachedFFmpegPath, _cudaAvailable, env,
                 children, calls, microQ, monProbes, lastProbe>>

\* The manager under a host that also reads the status and invalidates the
\* cache of the accelerated binary.
NextCache ==
  \/ NextLive
  \/ GetStatusCall
  \/ clearCudaBinaryCache

SpecCache == Init /\ [][NextCache]_vars

\* ------------------------------------------------------------------ claims

StartCalls == {c \in Calls : calls[c].kind = "start"}
StopCalls == {c \in Calls : calls[c].kind = "stop"}
TranscribeCalls == {c \in Calls : calls[c].kind = "transcribe"}

\* The children spawned by the _doStart of call c.
SpawnedBy(c) == {k \in Children : children[k].by = c}

\* C1: of two calls of start with identical arguments, the second issued
\* before the first completed, at most one spawns a child process.
C1_SingleFlightSpawn ==
  \A a, b \in StartCalls :
    (/\ a \in calls[b].inflight
     /\ calls[a].modelPath = calls[b].modelPath
     /\ calls[a].useCuda = calls[b].useCuda)
    => ~(SpawnedBy(a) # {} /\ SpawnedBy(b) # {})

\* C2: at most one spawned child process is alive (spawned and its exit not
\* yet observed) at any time.
C2_OneServerAlive == Cardinality(AliveChildren) <= 1

\* C3: when stop() has completed, getStatus() reports running = false and
\* port and modelPath unset.
C3_StopThenStatus ==
  \A c \in StopCalls :
    calls[c].pc = "returned" =>
      /\ getStatus.running = FALSE
      /\ getStatus.port = 0
      /\ getStatus.modelPath = Null

\* C4: when start rejects with the startup timeout, no process is owned, the
\* child it spawned is no longer alive and the supervisor is not ready.
C4_TimeoutLeavesNothing ==
  \A c \in StartCalls :
    (calls[c].pc = "returned" /\ calls[c].result = "StartupTimeout") =>
      /\ process = NoProc
      /\ ~ready
      /\ \A k \in SpawnedBy(c) : ~Alive(k)

\* The steps of a start that does its own work: a stop, a port scan, a spawn.
OwnWork == {"stopWait", "stopHung", "stopResolved", "startCont", "portScan", "probe", "probeOk",
            "sleep", "settled"}

\* C5: a start issued while another start is in flight does no work of its
\* own (no stop, no port allocation, no spawn) and settles with the outcome
\* of the start whose promise it was given.
C5_CoalescedSameOutcome ==
  \A b \in StartCalls :
    calls[b].inflight # {} =>
      /\ calls[b].pc \notin OwnWork
      /\ SpawnedBy(b) = {}
      /\ \A a \in StartCalls :
           (calls[b].pc = "returned" /\ calls[b].follows = a /\ calls[a].pc = "returned")
             => calls[b].result = calls[a].result

\* C6: a start issued while the supervisor is Ready with the same model path
\* and the same requested acceleration preference returns at once, having
\* done nothing.
C6_StartIdempotent ==
  \A c \in StartCalls :
    calls[c].obs = TRUE => (calls[c].pc = "returned" /\ calls[c].result = "ok")

\* An accelerated server binary is installed on the host.
AcceleratedInstalled == \E f \in env.files : f[2] = "cuda"

\* C7: a start that requested acceleration on a host without an accelerated
\* binary and succeeded leaves the status reporting the CPU variant; and the
\* status reports the accelerated variant only when the binary running is the
\* accelerated one.
C7_FallbackVisible ==
  /\ \A c \in StartCalls :
       (/\ calls[c].pc = "returned" /\ calls[c].result = "ok"
        /\ calls[c].useCuda /\ ~AcceleratedInstalled)
       => getStatus.usingCuda = FALSE
  /\ (getStatus.running /\ getStatus.usingCuda) => IsCudaBinary(children[process].bin)

C9_NotRunningRejected ==
  \A c \in TranscribeCalls :
    calls[c].obs[1] \notin {"Ready", "Degraded"} =>
      /\ calls[c].pc = "returned"
      /\ calls[c].result = "ServerNotRunning"
      /\ calls[c].sent = 0

\* The payload begins with the canonical signature: RIFF at bytes 0-3, WAVE at
\* bytes 8-11.
Canonical(audio) ==
  /\ Len(audio) >= 12
  /\ SubSeq(audio, 1, 4) = RIFF
  /\ SubSeq(audio, 9, 12) = WAVE

\* Call c got past the precondition of transcribe.
PastPrecondition(c) == ~(calls[c].pc = "returned" /\ calls[c].result = "ServerNotRunning")

\* C10: a payload with the canonical signature is sent as audio.wav / audio/wav
\* whatever canConvert is; any other payload is rejected with UnsupportedFormat
\* before a request is sent when canConvert is false, and sent as audio.webm /
\* audio/webm when canConvert is true.
C10_FormatSniff ==
  \A c \in TranscribeCalls :
    PastPrecondition(c) =>
      IF Canonical(calls[c].audio)
        THEN calls[c].sent = 1 /\ calls[c].part = <<"audio.wav", "audio/wav">>
      ELSE IF ~calls[c].obs[2]
        THEN /\ calls[c].pc = "returned" /\ calls[c].result = "UnsupportedFormat"
             /\ calls[c].sent = 0
      ELSE calls[c].sent = 1 /\ calls[c].part = <<"audio.webm", "audio/webm">>

C10_Witness ==
  \E c, d \in TranscribeCalls :
    /\ Canonical(calls[c].audio) /\ ~calls[c].obs[2] /\ calls[c].pc = "request"
    /\ ~Canonical(calls[d].audio) /\ calls[d].result = "UnsupportedFormat"

\* A server binary resolves for a start of preference useCuda: the CPU binary,
\* or the accelerated one when it is asked for.
BinaryInstalled(useCuda) ==
  getServerBinaryPath(FALSE) # NoPath \/ (useCuda /\ getServerBinaryPath(TRUE) # NoPath)

\* The start calls whose model file is not on disk.
MissingModelStarts == {c \in StartCalls : calls[c].modelPath \notin env.models}

\* Call c fails with ModelNotFound, having scanned no port and spawned no
\* child, and is not the in-flight start once it has returned.
FailsModelNotFound(c) ==
  /\ calls[c].pc \notin {"portScan", "probe", "probeOk", "sleep"}
  /\ SpawnedBy(c) = {}
  /\ calls[c].pc \in {"settled", "returned"} => calls[c].result = "ModelNotFound"
  /\ calls[c].pc = "returned" => startupPromise # c

\* C11 as stated: every start with a model path that is not on disk fails
\* with ModelNotFound before a port is allocated or a child is spawned, and the
\* in-flight marker is cleared afterwards.
C11_ModelNotFound == \A c \in MissingModelStarts : FailsModelNotFound(c)

\* C11 as amended: a start with a model path that is not on disk, which begins
\* its own operation (it is not handed the promise of a start in flight) on a
\* host where a server binary resolves, fails with ModelNotFound before a port
\* is allocated or a child is spawned, and the marker no longer names it when
\* it returns.
C11_ModelNotFoundOwnStart ==
  \A c \in MissingModelStarts :
    (calls[c].follows = NoCall /\ BinaryInstalled(calls[c].useCuda)) => FailsModelNotFound(c)

C11_Witness ==
  \E c \in MissingModelStarts :
    /\ calls[c].pc = "returned" /\ calls[c].result = "ModelNotFound"
    /\ calls[c].follows = NoCall
    /\ startupPromise = NoCall /\ process = NoProc /\ port = 0

\* C12: when start fails with NoPortAvailable it has spawned no process, and
\* the supervisor owns no process and has no port set.
C12_NoPortLeavesNothing ==
  \A c \in StartCalls :
    (calls[c].pc = "returned" /\ calls[c].result = "NoPortAvailable") =>
      /\ SpawnedBy(c) = {}
      /\ process = NoProc
      /\ port = 0

\* C13: a stop() in which sending the graceful or the forced termination
\* signal raised an error has completed, without the error escaping it, and
\* has left process, port and modelPath unset and the supervisor not ready.
C13_StopBestEffort ==
  \A c \in StopCalls :
    calls[c].obs # Null =>
      /\ calls[c].pc = "returned"
      /\ process = NoProc /\ port = 0 /\ modelPath = Null /\ ~ready

\* C14: every call of stop() eventually returns to its caller.
C14_StopCompletes ==
  \A c \in Calls : (calls[c].kind = "stop") ~> (calls[c].kind = "done")

\* C15: port and process are both set or both unset.
C15_PortIffProcess == (port # 0) <=> (process # NoProc)

\* C16: modelPath and usingCuda do not change in a step before and after
\* which a child process is owned: they change only between the stop of
\* one instance and the spawn of the next.
C16_ImmutableWhileOwned ==
  [][(process # NoProc /\ process' # NoProc) =>
       (modelPath' = modelPath /\ usingCuda' = usingCuda)]_vars

\* C17: a step in which the owned child is lost while no stop() is in
\* progress (the child exited on its own) leaves process, port and modelPath
\* unset, the supervisor not ready and the monitoring halted.
C17_ExitResetsInstance ==
  [][(process # NoProc /\ ~Stopping /\ process' = NoProc) =>
       (port' = 0 /\ modelPath' = Null /\ ~ready' /\ ~healthCheckInterval')]_vars

\* The requests that have settled: transcribe calls returned after sending.
SettledRequests ==
  {c \in TranscribeCalls : calls[c].pc = "returned" /\ calls[c].sent > 0}

\* C18: a request that was sent settles with the one outcome of its round
\* trip: InferenceError with status and raw body for a status other than 200,
\* MalformedResponse for a 200 whose body does not parse, the parsed result
\* for a 200 whose body parses, RequestFailed for a transport error,
\* RequestTimedOut for a timeout.
C18_OneOutcome ==
  \A c \in SettledRequests :
    LET e == calls[c].events[1]
        result == calls[c].result
        detail == calls[c].detail
    IN  /\ (e.type = "response" /\ e.status # 200)
             => (result = "InferenceError" /\ detail = <<e.status, e.body>>)
        /\ (e.type = "response" /\ e.status = 200 /\ ~JSONparse(e.body)[1])
             => result = "MalformedResponse"
        /\ (e.type = "response" /\ e.status = 200 /\ JSONparse(e.body)[1])
             => (result = "ok" /\ detail = <<JSONparse(e.body)[2]>>)
        /\ e.type = "error" => result = "RequestFailed"
        /\ e.type = "timeout" => result = "RequestTimedOut"

C18_Witness ==
  \E c \in SettledRequests :
    /\ Len(calls[c].events) = 2 /\ calls[c].events[1].type = "timeout"
    /\ calls[c].result = "RequestTimedOut"

\* C19: a transcribe call writes at most one request, whatever its outcome.
C19_NoRetry == \A c \in Calls : calls[c].sent <= 1

C19_Witness ==
  \E c \in SettledRequests :
    calls[c].sent = 1 /\ calls[c].result \in {"InferenceError", "RequestFailed", "RequestTimedOut"}

\* C20: the port a start records after its scan is the lowest port of the
\* range not taken, and the scan fails with NoPortAvailable exactly when
\* every port of the range is taken.
C20_LowestFreePort ==
  \A c \in StartCalls :
    /\ calls[c].pc = "probe" =>
         /\ port \in Ports /\ port \notin env.occupied
         /\ \A q \in Ports : q < port => q \in env.occupied
    /\ calls[c].pc \in {"settled", "returned"} =>
         (calls[c].result = "NoPortAvailable" /\ Ports \subseteq env.occupied)

C20_Witness ==
  \E c \in StartCalls :
    /\ calls[c].pc = "probe"
    /\ port > PORT_RANGE_START + 1
    /\ \E q \in Ports : q > port /\ q \notin env.occupied
    /\ \E q \in Ports : q > port /\ q \in env.occupied

\* C21: what getServerBinaryPath(true) resolved to (kept in the cache of the
\* accelerated variant) is never a legacy, generic or CPU-variant binary.
C21_AcceleratedNeverLegacy ==
  cachedCudaBinaryPath # NoPath => IsCudaBinary(cachedCudaBinaryPath)

\* C22: a cached binary path is the one resolved for its own variant, and the
\* step that invalidates the accelerated entry leaves the CPU entry, the
\* transcoder entry, the accelerator-presence cache and process, port,
\* modelPath and ready as they were.
C22_ClearOnlyAccelerated ==
  /\ [](/\ cachedServerBinaryPath # NoPath =>
             cachedServerBinaryPath = FirstExisting(Candidates(FALSE))
        /\ cachedCudaBinaryPath # NoPath =>
             cachedCudaBinaryPath = FirstExisting(Candidates(TRUE)))
  /\ [][(cachedCudaBinaryPath # NoPath /\ cachedCudaBinaryPath' = NoPath) =>
          UNCHANGED <<cachedServerBinaryPath, cachedFFmpegPath, _cudaAvailable,
                      process, port, modelPath, ready>>]_vars

C22_Witness ==
  /\ usingCuda /\ process # NoProc /\ ready /\ port # 0 /\ modelPath # Null
  /\ cachedCudaBinaryPath = NoPath
  /\ cachedServerBinaryPath # NoPath
  /\ cachedFFmpegPath # NoPath
  /\ _cudaAvailable = "true"

\* C23: every call of start eventually settles for its caller, the first
\* caller and every coalesced one.
C23_StartSettles ==
  \A c \in Calls : (calls[c].kind = "start") ~> (calls[c].kind = "done")

\* C24: a start whose readiness phase has resolved successfully owns a child
\* that is alive: it never resolves for a child whose exit was observed before.
C24_NoSuccessAfterExit ==
  \A c \in StartCalls :
    (calls[c].pc = "settled" /\ calls[c].result = "ok") =>
      (process # NoProc /\ Alive(process))

\* The step in which the exit of the owned child is observed while Ready.
ExitObservedWhenReady ==
  /\ State = "Ready"
  /\ Alive(process)
  /\ children'[process].st = "closed"

\* What the next operation finds after a crash: transcribe is rejected,
\* getStatus reports not running, start is neither a no-op nor coalesced.
CrashObservable ==
  /\ State = "Stopped"
  /\ process = NoProc
  /\ ~healthCheckInterval
  /\ notRunning
  /\ ~getStatus.running
  /\ ~alreadyRunning(modelPath, usingCuda)
  /\ startupPromise = NoCall

\* C25: the step that observes the exit of the owned child of a Ready
\* supervisor leaves it Stopped, without a process and without the monitoring
\* timer; in such a state a transcribe is rejected with ServerNotRunning, the
\* status reports not running, and a start runs _doStart towards a new child
\* instead of returning as a no-op or joining a start in flight.
C25_CrashObservable ==
  [][/\ ExitObservedWhenReady => CrashObservable'
     /\ \A c \in Calls :
          (CrashObservable /\ calls[c].kind = "none") =>
            /\ calls'[c].kind = "transcribe" => calls'[c].result = "ServerNotRunning"
            /\ calls'[c].kind = "start" =>
                 /\ calls'[c].follows = NoCall
                 /\ startupPromise' = c
                 /\ \/ calls'[c].pc = "portScan"
                    \/ calls'[c].result \in {"BinaryNotFound", "ModelNotFound"}]_vars

C25_Witness ==
  /\ process = NoProc /\ ~ready /\ ~healthCheckInterval
  /\ \E k \in Children : children[k].st = "closed"
  /\ \E c \in StartCalls :
       /\ calls[c].pc = "portScan"
       /\ startupPromise = c
       /\ calls[c].modelPath = modelPath
       /\ calls[c].useCuda = usingCuda
       /\ port # 0

\* The step in which a monitoring probe settles.
MonProbeSettles ==
  \E k \in Children : monProbes[k] = "sent" /\ monProbes'[k] = "none"

\* The step is the observed exit of the owned child, or a call of stop(), by
\* the host or by start().
OwnExitOrStop ==
  \/ children'[process].st = "closed"
  \/ \E c \in Calls : calls[c].kind = "none" /\ calls'[c].kind \in {"stop", "start"}

\* C26: the step in which a monitoring probe settles neither signals a child
\* nor clears the timer nor drops the process, and takes Ready to Degraded
\* when the probe failed; the monitoring of a Degraded supervisor ends only
\* with the exit of the owned child or with a stop.
C26_MonitoringContinues ==
  [][/\ MonProbeSettles =>
          /\ UNCHANGED <<healthCheckInterval, children, process>>
          /\ (State = "Ready" /\ ~ready') => State' = "Degraded"
     /\ (State = "Degraded" /\ ~healthCheckInterval') => OwnExitOrStop]_vars

\* C27: while the supervisor is Ready, the health probe of the owned child
\* that completed last succeeded.
C27_ReadyMeansProbeOk == State = "Ready" => lastProbe = "ok"

\* C28: the step in which a monitoring probe of the owned child of a Degraded
\* supervisor succeeds returns the state to Ready.
C28_DegradedRecovers ==
  [][(/\ State = "Degraded"
      /\ monProbes[process] = "sent"
      /\ monProbes'[process] = "none"
      /\ lastProbe' = "ok") => State' = "Ready"]_vars

\* C29: forced termination is requested only of a child that was asked to
\* terminate gracefully before.
C29_EscalationOrder ==
  [][\A k \in Children :
       (children[k].signal # "SIGKILL" /\ children'[k].signal = "SIGKILL") =>
         children[k].signal = "SIGTERM"]_vars

\* The health probes in flight: readiness probes by call, monitoring probes
\* by the child probed.
ReadinessProbes == {c \in Calls : calls[c].pc \in {"probe", "probeOk"}}
MonitoringProbes == {k \in Children : monProbes[k] = "sent"}

\* C30: at most one health probe, readiness or monitoring, is in flight.
C30_OneProbeInFlight ==
  Cardinality(ReadinessProbes) + Cardinality(MonitoringProbes) <= 1

\* C31: whenever ready is true a child process is owned.
C31_ReadyOwnsProcess == ready => process # NoProc

\* C32: the step in which the exit of a child other than the owned one is
\* observed leaves process, ready and the monitoring timer as they were.
C32_OldExitHarmless ==
  [][\A k \in Children :
       (/\ Alive(k) /\ children'[k].st = "closed"
        /\ process # NoProc /\ process # k) =>
         UNCHANGED <<process, ready, healthCheckInterval>>]_vars

\* C33: when a call start(m) has resolved successfully for its caller, the
\* supervisor runs model m: modelPath = m.
C33_ResolvedRunsModel ==
  \A c \in StartCalls :
    (calls[c].pc = "returned" /\ calls[c].result = "ok") =>
      modelPath = calls[c].modelPath

\* C34: the step in which a monitoring probe sent to a child other than the
\* owned one settles leaves ready as it was.
C34_ProbeOwnInstance ==
  [][\A k \in Children :
       (monProbes[k] = "sent" /\ monProbes'[k] = "none" /\ k # process) =>
         ready' = ready]_vars

\* The calls of start whose _doStart is in progress.
DoStarts ==
  {c \in Calls : calls[c].pc \in {"portScan", "probe", "probeOk", "sleep", "settled"}}

\* C35: at most one _doStart is in progress, and startupPromise refers to it
\* for as long as it is.
C35_MarkerTracksStart ==
  /\ Cardinality(DoStarts) <= 1
  /\ \A c \in DoStarts : startupPromise = c

\* C36: whenever a process is owned, port and modelPath are set; a request
\* of transcribe in flight was sent to a port that was set.
C36_OwnedHasPortAndModel ==
  /\ process # NoProc => (port # 0 /\ modelPath # Null)
  /\ \A c \in TranscribeCalls : calls[c].pc = "request" => calls[c].probePort \in Ports

C36_Witness ==
  /\ process # NoProc /\ ready
  /\ \E c \in TranscribeCalls : calls[c].pc = "request" /\ calls[c].probePort = port
  /\ \E k \in Children : children[k].st = "closed"

\* C37: once a call of stop() has completed, no monitoring timer is active.
C37_NoTimerAfterStop ==
  \A c \in StopCalls : calls[c].pc = "returned" => ~healthCheckInterval

\* The step is one of call c of transcribe: the call is issued, or its
\* request settles, or it returns to the host.
TranscribeStep(c) ==
  /\ calls'[c] # calls[c]
  /\ calls[c].kind = "transcribe" \/ calls'[c].kind = "transcribe"

\* C38: no step of a call of transcribe changes process, port, modelPath,
\* ready, canConvert, usingCuda, startupPromise or the monitoring timer, and
\* a call issued to a running server with a payload it accepts sends its
\* request at once, whatever other requests are in flight.
C38_TranscribeFrame ==
  [][\A c \in Calls :
       /\ TranscribeStep(c) => UNCHANGED instVars
       /\ (/\ calls[c].kind = "none" /\ calls'[c].kind = "transcribe"
           /\ ~notRunning
           /\ isWav(calls'[c].audio) \/ canConvert) => calls'[c].pc = "request"]_vars

C38_Witness ==
  /\ ready /\ process # NoProc
  /\ \E c, d \in TranscribeCalls :
       /\ c # d
       /\ calls[c].pc = "request"
       /\ calls[d].pc = "returned" /\ calls[d].sent > 0 /\ calls[d].result # "ok"

\* C39: the step in which a start fails for a missing binary or a missing
\* model leaves port, modelPath, process and usingCuda as they were.
C39_FailedStartFrame ==
  [][\A c \in Calls :
       (/\ calls'[c].kind = "start"
        /\ calls[c].pc # "settled" /\ calls'[c].pc = "settled"
        /\ calls'[c].result \in {"BinaryNotFound", "ModelNotFound"}) =>
         UNCHANGED <<port, modelPath, process, usingCuda>>]_vars

====
